---- MODULE Spec2Model ----
(***************************************************************************)
(* Zowe Chat: plugin loader, listener registry, message matcher and        *)
(* message dispatcher.                                                     *)
(*                                                                         *)
(*   ChatBot            packages/chat/src/config/doc/IConfigBlockDefinition.ts *)
(*   BotMessageListener packages/chat/src/listeners/BotMessageListener.ts  *)
(*   SlackListener      unnamed/part_000                                   *)
(*                                                                         *)
(* Objects that the code shares by reference (the plugin descriptors read  *)
(* from plugin.yaml, the extraData object of a chat context) live in heaps *)
(* (pluginHeap, xd) and are named by references, so that aliasing and      *)
(* copying are distinguishable.                                            *)
(***************************************************************************)
EXTENDS Integers, Sequences, FiniteSets, TLC

VARIABLES
    phase,          \* position of ChatBot's life cycle
    manifest,       \* plugin.yaml and the installed packages, as read by loadPlugins
    pluginHeap,     \* plugin reference -> IChatPlugin object
    chatListeners,  \* BotMessageListener.chatListeners
    eventListeners, \* BotEventListener.chatListeners
    plugins,        \* ChatBot.plugins
    loadLog,        \* what loadPlugins logged, in order
    pluginLimit,    \* config.app.pluginLimit
    pc,             \* message -> position of its matchMessage / processMessage
    ctx,            \* message -> the inbound IChatContextData
    xd,             \* extraData reference -> extraData object
    matchRet,       \* message -> what matchMessage returned
    idx,            \* message -> loop index i of processMessage
    limit,          \* message -> local pluginLimit of processMessage
    hist,           \* message -> the calls made for it so far, in order
    middleware,     \* the bot's middleware: what getMiddleware returns
    mwState,        \* SlackMiddleware object -> how far its run has come
    listenPc,       \* listen call -> position of SlackListener.listen
    listenMw,       \* listen call -> its local variable middleware
    matchers,       \* messageMatcher: the listen calls whose pair was added
    slackLog        \* what the listen calls did, in order

loadVars == <<manifest, pluginHeap, chatListeners, eventListeners, plugins, loadLog>>
msgVars == <<pc, ctx, xd, matchRet, idx, limit, hist>>
slackVars == <<middleware, mwState, listenPc, listenMw, matchers, slackLog>>
vars == <<phase, manifest, pluginHeap, chatListeners, eventListeners, plugins, loadLog,
          pluginLimit, pc, ctx, xd, matchRet, idx, limit, hist,
          middleware, mwState, listenPc, listenMw, matchers, slackLog>>

\* absent values, one per type
NULL == "null"
NoRef == <<"none", 0>>
NoPlugin == -1
NoManifest == [file |-> "unread", list |-> <<>>]
NoCtx == [id |-> NoRef, xdRef |-> NoRef]

(***************************************************************************)
(* Bounds                                                                  *)
(***************************************************************************)
\* plugins in a manifest of the loader specification
MaxPlugins == 3
\* plugins in a manifest of the serving specification
MaxServePlugins == 1
\* largest configured pluginLimit
MaxLimit == 3

(***************************************************************************)
(* Listener names.  A name is a sequence of tokens, so that endsWith is    *)
(* computed and not assumed: <<"Foo", "MessageListener">> is the class     *)
(* name FooMessageListener.                                                *)
(***************************************************************************)
FooML == <<"Foo", "MessageListener">>
BarML == <<"Bar", "MessageListener">>
BazEL == <<"Baz", "EventListener">>
QuxH  == <<"Qux", "MessageListener", "Helper">>

endsWith(name, suffix) == Len(name) >= 1 /\ name[Len(name)] = suffix

\* the position of a listener name in a plugin's declared listeners (0: absent)
IndexOf(name, list) ==
    IF \E k \in 1..Len(list) : list[k] = name
    THEN CHOOSE k \in 1..Len(list) : list[k] = name /\ \A j \in 1..(k-1) : list[j] # name
    ELSE 0

(***************************************************************************)
(* The core plugin of setBotListeners                                      *)
(***************************************************************************)
CoreRef == 0
CorePlugin == [package |-> <<"chat", 0>>, listeners |-> << <<"Logout", "MessageListener">> >>,
               priority |-> 1]
CoreEntry == [listenerName |-> <<"Logout", "Listener">>, listenerType |-> "MESSAGE",
              chatPlugin |-> CoreRef]

(***************************************************************************)
(* Manifests.  A manifest is the state of plugin.yaml (absent, malformed,  *)
(* or a list of descriptors) together with, per descriptor, what the file  *)
(* system and the module loader answer for its package:                    *)
(*   ok             installed, package name agrees, module loads           *)
(*   missing        fs.existsSync(pluginPath) is false                     *)
(*   mismatch       Util.getPackageName differs from plugin.package        *)
(*   requireThrows  require(pluginPath) throws                             *)
(*   ctorThrows     the module loads, `new ZoweChatPlugin[name]()` throws  *)
(*                  for the declared listener at position failAt           *)
(***************************************************************************)
Priorities == {1, 2, 3}

PluginKinds ==
    { [listeners |-> <<FooML>>,        env |-> "ok",            failAt |-> 0],
      [listeners |-> <<FooML, BazEL>>, env |-> "ok",            failAt |-> 0],
      [listeners |-> <<QuxH, BarML>>,  env |-> "ok",            failAt |-> 0],
      [listeners |-> <<FooML>>,        env |-> "missing",       failAt |-> 0],
      [listeners |-> <<FooML>>,        env |-> "mismatch",      failAt |-> 0],
      [listeners |-> <<BazEL, FooML>>, env |-> "requireThrows", failAt |-> 0],
      [listeners |-> <<FooML, BarML>>, env |-> "ctorThrows",    failAt |-> 2] }

Descriptors(kinds, prios) ==
    { [listeners |-> k.listeners, env |-> k.env, failAt |-> k.failAt, priority |-> p] :
        k \in kinds, p \in prios }

Manifests(kinds, prios, n) ==
    { [file |-> "absent", list |-> <<>>], [file |-> "malformed", list |-> <<>>] }
    \cup { [file |-> "ok", list |-> l] :
             l \in UNION { [1..k -> Descriptors(kinds, prios)] : k \in 0..n } }

\* the IChatPlugin object yaml.load builds for a descriptor
PluginObject(d, i) ==
    [package |-> <<"plugin", i>>, listeners |-> d.listeners, priority |-> d.priority]

(***************************************************************************)
(* pluginList.sort((a, b) => a.priority - b.priority): Array.prototype.sort *)
(* is stable; modelled as a stable insertion sort of the references.       *)
(***************************************************************************)
RECURSIVE Insert(_, _, _)
Insert(r, sorted, heap) ==
    IF sorted = <<>> THEN <<r>>
    ELSE IF heap[r].priority - heap[Head(sorted)].priority < 0
         THEN <<r>> \o sorted
         ELSE <<Head(sorted)>> \o Insert(r, Tail(sorted), heap)

RECURSIVE SortUpTo(_, _, _)
SortUpTo(refs, n, heap) ==
    IF n = 0 THEN <<>> ELSE Insert(refs[n], SortUpTo(refs, n - 1, heap), heap)

\* a sort that puts a plugin in front of the earlier plugins of equal priority
RECURSIVE InsertBeforeEqual(_, _, _)
InsertBeforeEqual(r, sorted, heap) ==
    IF sorted = <<>> THEN <<r>>
    ELSE IF heap[r].priority - heap[Head(sorted)].priority <= 0
         THEN <<r>> \o sorted
         ELSE <<Head(sorted)>> \o InsertBeforeEqual(r, Tail(sorted), heap)

RECURSIVE SortUpToUnstable(_, _, _)
SortUpToUnstable(refs, n, heap) ==
    IF n = 0 THEN <<>>
    ELSE InsertBeforeEqual(refs[n], SortUpToUnstable(refs, n - 1, heap), heap)

SortUnstable(refs, heap) == SortUpToUnstable(refs, Len(refs), heap)

SortByPriority(refs, heap) == SortUpTo(refs, Len(refs), heap)

(***************************************************************************)
(* registerChatListener: push                                              *)
(***************************************************************************)
\* a registry that keeps one entry per listener name: a new entry takes the
\* place of the entry of the same name
registerChatListenerByName(registry, entry) ==
    IF \E i \in 1..Len(registry) : registry[i].listenerName = entry.listenerName
    THEN [i \in 1..Len(registry) |->
             IF registry[i].listenerName = entry.listenerName THEN entry ELSE registry[i]]
    ELSE Append(registry, entry)

\* a registry that puts each new entry in front of the earlier ones
registerChatListenerFront(registry, entry) == <<entry>> \o registry

registerChatListener(registry, entry) == Append(registry, entry)

(***************************************************************************)
(* loadPlugins, the loop over one plugin's declared listeners (lines       *)
(* 299-328).  st is [ml, el, log, thrown]: the two registries, the log and *)
(* whether an exception is in flight.                                      *)
(***************************************************************************)
\* a loop that ends at the first name that is neither kind of listener
RECURSIVE LoadListenersStopAtUnsupported(_, _, _, _)
LoadListenersStopAtUnsupported(st, ref, man, k) ==
    LET d    == man.list[ref]
        name == d.listeners[k]
        throws == \/ d.env = "requireThrows"
                  \/ d.env = "ctorThrows" /\ d.failAt = k
    IN
    IF k > Len(d.listeners) THEN st
    ELSE IF endsWith(name, "MessageListener") THEN
        IF throws THEN [st EXCEPT !.thrown = TRUE]
        ELSE LoadListenersStopAtUnsupported(
                 [st EXCEPT !.ml = registerChatListener(@,
                     [listenerName |-> name, listenerType |-> "MESSAGE", chatPlugin |-> ref])],
                 ref, man, k + 1)
    ELSE IF endsWith(name, "EventListener") THEN
        IF throws THEN [st EXCEPT !.thrown = TRUE]
        ELSE LoadListenersStopAtUnsupported(
                 [st EXCEPT !.el = registerChatListener(@,
                     [listenerName |-> name, listenerType |-> "EVENT", chatPlugin |-> ref])],
                 ref, man, k + 1)
    ELSE [st EXCEPT !.log = Append(@, <<"unsupported", ref, k>>)]

RECURSIVE LoadListeners(_, _, _, _)
LoadListeners(st, ref, man, k) ==
    LET d    == man.list[ref]
        name == d.listeners[k]
        throws == \/ d.env = "requireThrows"
                  \/ d.env = "ctorThrows" /\ d.failAt = k
    IN
    IF k > Len(d.listeners) THEN st
    ELSE IF endsWith(name, "MessageListener") THEN
        IF throws THEN [st EXCEPT !.thrown = TRUE]
        ELSE LoadListeners(
                 [st EXCEPT !.ml = registerChatListener(@,
                     [listenerName |-> name, listenerType |-> "MESSAGE", chatPlugin |-> ref])],
                 ref, man, k + 1)
    ELSE IF endsWith(name, "EventListener") THEN
        IF throws THEN [st EXCEPT !.thrown = TRUE]
        ELSE LoadListeners(
                 [st EXCEPT !.el = registerChatListener(@,
                     [listenerName |-> name, listenerType |-> "EVENT", chatPlugin |-> ref])],
                 ref, man, k + 1)
    ELSE LoadListeners([st EXCEPT !.log = Append(@, <<"unsupported", ref, k>>)], ref, man, k + 1)

(***************************************************************************)
(* loadPlugins, the loop over the sorted plugins (lines 269-332).  st adds *)
(* plugins, the list of loaded plugins.                                    *)
(***************************************************************************)
\* a loop that ends at the first plugin it cannot resolve
RECURSIVE LoadLoopStopsAtSkip(_, _, _, _)
LoadLoopStopsAtSkip(st, sorted, man, i) ==
    IF i > Len(sorted) THEN st
    ELSE
        LET ref == sorted[i]
            d   == man.list[ref]
        IN
        IF d.env = "missing"
        THEN [st EXCEPT !.log = Append(@, <<"missing", ref>>)]
        ELSE IF d.env = "mismatch"
        THEN [st EXCEPT !.log = Append(@, <<"mismatch", ref>>)]
        ELSE
            LET after == LoadListeners(st, ref, man, 1)
            IN  IF after.thrown
                THEN after
                ELSE LoadLoopStopsAtSkip([after EXCEPT !.plugins = Append(@, ref),
                                                       !.log = Append(@, <<"complete", ref>>)],
                                         sorted, man, i + 1)

RECURSIVE LoadLoop(_, _, _, _)
LoadLoop(st, sorted, man, i) ==
    IF i > Len(sorted) THEN st
    ELSE
        LET ref == sorted[i]
            d   == man.list[ref]
        IN
        IF d.env = "missing"
        THEN LoadLoop([st EXCEPT !.log = Append(@, <<"missing", ref>>)], sorted, man, i + 1)
        ELSE IF d.env = "mismatch"
        THEN LoadLoop([st EXCEPT !.log = Append(@, <<"mismatch", ref>>)], sorted, man, i + 1)
        ELSE
            LET after == LoadListeners(st, ref, man, 1)
            IN  IF after.thrown
                THEN after
                ELSE LoadLoop([after EXCEPT !.plugins = Append(@, ref),
                                            !.log = Append(@, <<"complete", ref>>)],
                              sorted, man, i + 1)

(***************************************************************************)
(* loadPlugins, neither manifest file exists (lines 249-258): two errors   *)
(* are logged and the function returns.                                    *)
(***************************************************************************)
\* a loader for which a missing manifest is an exception
NoManifestFoundThrows(st) == [st EXCEPT !.thrown = TRUE]

NoManifestFound(st) == [st EXCEPT !.log = Append(@, <<"skip">>)]

(***************************************************************************)
(* readYamlFile (lines 348-361) on the manifest file that exists: the      *)
(* parsed list, or the exception TBD003E when yaml.load fails.             *)
(***************************************************************************)
readYamlFile(man) ==
    IF man.file = "malformed"
    THEN [thrown |-> TRUE, list |-> <<>>]
    ELSE [thrown |-> FALSE, list |-> man.list]

(***************************************************************************)
(* loadPlugins, the catch block (lines 333-336): whatever was raised in    *)
(* the try block is logged, and nothing is raised again.                   *)
(***************************************************************************)
\* a catch block that logs and raises the exception again
LoadCatchRethrows(st) == [st EXCEPT !.log = Append(@, <<"error">>)]

LoadCatch(st) == [st EXCEPT !.log = Append(@, <<"error">>), !.thrown = FALSE]

(***************************************************************************)
(* loadPlugins (lines 238-340): the result of one load pass on manifest    *)
(* man, starting from registries ml and el.  In the result, thrown says    *)
(* whether an exception leaves loadPlugins.                                *)
(***************************************************************************)
LoadResult(man, ml, el) ==
    LET st0 == [ml |-> ml, el |-> el, plugins |-> <<>>, log |-> <<>>, thrown |-> FALSE]
        yaml == readYamlFile(man)
        refs == [i \in 1..Len(yaml.list) |-> i]
        heap == [i \in 1..Len(yaml.list) |-> PluginObject(yaml.list[i], i)]
    IN
    IF man.file = "absent"
    THEN NoManifestFound(st0)
    ELSE IF yaml.thrown
    THEN LoadCatch([st0 EXCEPT !.thrown = TRUE])
    ELSE
        LET st == LoadLoop(st0, SortByPriority(refs, heap), man, 1)
        IN  IF st.thrown THEN LoadCatch(st) ELSE st


(***************************************************************************)
(* Inbound messages.  A chat context is [id, xdRef]: its identity and the  *)
(* reference of its extraData object (NoRef: extraData is undefined).  The *)
(* inbound context of message m is [id |-> <<m, 0>>, ...]; the clone made  *)
(* for the listener at registry index k is [id |-> <<m, k>>, ...].         *)
(*                                                                         *)
(* An extraData object is [keys, note, chatPlugin, listeners, contexts]:   *)
(* keys is the set of properties that are set, note stands for whatever    *)
(* the transport put there, chatPlugin is a reference into pluginHeap,     *)
(* listeners is a sequence of registry indices, contexts a sequence of     *)
(* chat contexts.                                                          *)
(***************************************************************************)
Msgs == {"m1", "m2"}
\* the messages of the serving specification
OneMsg == {"m1"}

OrigId(m) == <<m, 0>>
CloneId(m, k) == <<m, k>>

EmptyExtra == [keys |-> {}, note |-> NULL, chatPlugin |-> NoPlugin, listeners |-> <<>>,
               contexts |-> <<>>]

(***************************************************************************)
(* What a registered listener's matchMessage does with the context it is   *)
(* given: answer no or yes, raise, or answer yes after writing to the      *)
(* context (to its extraData, or to the plugin object extraData.chatPlugin *)
(* refers to).                                                             *)
(***************************************************************************)
MatchAnswers == {"no", "yes", "throw", "yesMutNote", "yesMutPlugin"}
Plain(b) == b \in {"no", "yes"}
Says(b) == IF b = "no" THEN "false" ELSE IF b = "throw" THEN "throw" ELSE "true"

\* per registry index, what the listener answers for one message: the core
\* listener answers no or yes, and at most one plugin listener raises or writes
Answers(registry) ==
    { f \in [1..Len(registry) -> MatchAnswers] :
        /\ \A k \in 1..Len(registry) : registry[k].chatPlugin = CoreRef => Plain(f[k])
        /\ \A j, k \in 1..Len(registry) : ~Plain(f[j]) /\ ~Plain(f[k]) => j = k }

ListenerMatch(b, c, xdh, ph) ==
    [ret |-> Says(b),
     xd  |-> IF b = "yesMutNote"
             THEN [xdh EXCEPT ![c.xdRef].note = "written", ![c.xdRef].keys = @ \cup {"note"}]
             ELSE xdh,
     ph  |-> IF b = "yesMutPlugin"
             THEN [ph EXCEPT ![xdh[c.xdRef].chatPlugin].priority = 0]
             ELSE ph]

(***************************************************************************)
(* _.cloneDeep(chatContextData) (line 92): a new context whose extraData,  *)
(* when the original has one, is a new object with the same content.       *)
(***************************************************************************)

\* a clone kept per listener and shared by all messages: the clone made for
\* the first message is taken again for the others
cloneDeepShared(c, id, xdh) ==
    LET shared == <<"m1", id[2]>>
    IN  IF c.xdRef = NoRef
        THEN [c |-> [id |-> shared, xdRef |-> NoRef], xd |-> xdh]
        ELSE [c |-> [id |-> shared, xdRef |-> shared], xd |-> (shared :> xdh[c.xdRef]) @@ xdh]

cloneDeep(c, id, xdh) ==
    IF c.xdRef = NoRef
    THEN [c |-> [id |-> id, xdRef |-> NoRef], xd |-> xdh]
    ELSE [c |-> [id |-> id, xdRef |-> id], xd |-> (id :> xdh[c.xdRef]) @@ xdh]

\* a stamp that names the core plugin on every clone
StampPluginCore(c, p, xdh) ==
    IF c.xdRef = NoRef
    THEN [c |-> [c EXCEPT !.xdRef = c.id],
          xd |-> (c.id :> [EmptyExtra EXCEPT !.chatPlugin = CoreRef,
                                             !.keys = {"chatPlugin"}]) @@ xdh]
    ELSE [c |-> c, xd |-> [xdh EXCEPT ![c.xdRef].chatPlugin = CoreRef,
                                      ![c.xdRef].keys = @ \cup {"chatPlugin"}]]

\* lines 93-99: stamp the listener's plugin on the clone
StampPlugin(c, p, xdh) ==
    IF c.xdRef = NoRef
    THEN [c |-> [c EXCEPT !.xdRef = c.id],
          xd |-> (c.id :> [EmptyExtra EXCEPT !.chatPlugin = p, !.keys = {"chatPlugin"}]) @@ xdh]
    ELSE [c |-> c, xd |-> [xdh EXCEPT ![c.xdRef].chatPlugin = p,
                                      ![c.xdRef].keys = @ \cup {"chatPlugin"}]]

Ev(e, i, who, target, body) ==
    [e |-> e, i |-> i, who |-> who, target |-> target, body |-> body]

(***************************************************************************)
(* matchMessage, the loop over the registry (lines 91-104).  acc is        *)
(* [listeners, contexts, xd, ph, thrown, hist].                            *)
(***************************************************************************)
\* a loop that puts each match in front of the earlier ones
RECURSIVE MatchLoopReversed(_, _, _, _, _)
MatchLoopReversed(acc, c, registry, answers, k) ==
    IF k > Len(registry) THEN acc
    ELSE
        LET cl == cloneDeep(c, <<c.id[1], k>>, acc.xd)
            st == StampPlugin(cl.c, registry[k].chatPlugin, cl.xd)
            r  == ListenerMatch(answers[k], st.c, st.xd, acc.ph)
            h  == Append(acc.hist, Ev("consult", k, k, st.c, <<r.ret>>))
        IN  IF r.ret = "throw"
            THEN [acc EXCEPT !.xd = r.xd, !.ph = r.ph, !.hist = h, !.thrown = TRUE]
            ELSE MatchLoopReversed(
                     [listeners |-> IF r.ret = "true" THEN <<k>> \o acc.listeners
                                    ELSE acc.listeners,
                      contexts  |-> IF r.ret = "true" THEN <<st.c>> \o acc.contexts
                                    ELSE acc.contexts,
                      xd |-> r.xd, ph |-> r.ph, thrown |-> FALSE, hist |-> h],
                     c, registry, answers, k + 1)

\* a loop that stops at the first listener that matches
RECURSIVE MatchLoopFirstOnly(_, _, _, _, _)
MatchLoopFirstOnly(acc, c, registry, answers, k) ==
    IF k > Len(registry) THEN acc
    ELSE
        LET cl == cloneDeep(c, <<c.id[1], k>>, acc.xd)
            st == StampPlugin(cl.c, registry[k].chatPlugin, cl.xd)
            r  == ListenerMatch(answers[k], st.c, st.xd, acc.ph)
            h  == Append(acc.hist, Ev("consult", k, k, st.c, <<r.ret>>))
        IN  IF r.ret = "throw"
            THEN [acc EXCEPT !.xd = r.xd, !.ph = r.ph, !.hist = h, !.thrown = TRUE]
            ELSE IF r.ret = "true"
            THEN [listeners |-> Append(acc.listeners, k),
                  contexts  |-> Append(acc.contexts, st.c),
                  xd |-> r.xd, ph |-> r.ph, thrown |-> FALSE, hist |-> h]
            ELSE MatchLoopFirstOnly(
                     [acc EXCEPT !.xd = r.xd, !.ph = r.ph, !.hist = h],
                     c, registry, answers, k + 1)

\* a loop that passes over a listener that raises and asks the next one
RECURSIVE MatchLoopSkipRaising(_, _, _, _, _)
MatchLoopSkipRaising(acc, c, registry, answers, k) ==
    IF k > Len(registry) THEN acc
    ELSE
        LET cl == cloneDeep(c, <<c.id[1], k>>, acc.xd)
            st == StampPlugin(cl.c, registry[k].chatPlugin, cl.xd)
            r  == ListenerMatch(answers[k], st.c, st.xd, acc.ph)
            h  == Append(acc.hist, Ev("consult", k, k, st.c, <<r.ret>>))
        IN  MatchLoopSkipRaising(
                [listeners |-> IF r.ret = "true" THEN Append(acc.listeners, k)
                               ELSE acc.listeners,
                 contexts  |-> IF r.ret = "true" THEN Append(acc.contexts, st.c)
                               ELSE acc.contexts,
                 xd |-> r.xd, ph |-> r.ph, thrown |-> FALSE, hist |-> h],
                c, registry, answers, k + 1)

RECURSIVE MatchLoop(_, _, _, _, _)
MatchLoop(acc, c, registry, answers, k) ==
    IF k > Len(registry) THEN acc
    ELSE
        LET cl == cloneDeep(c, <<c.id[1], k>>, acc.xd)
            st == StampPlugin(cl.c, registry[k].chatPlugin, cl.xd)
            r  == ListenerMatch(answers[k], st.c, st.xd, acc.ph)
            h  == Append(acc.hist, Ev("consult", k, k, st.c, <<r.ret>>))
        IN  IF r.ret = "throw"
            THEN [acc EXCEPT !.xd = r.xd, !.ph = r.ph, !.hist = h, !.thrown = TRUE]
            ELSE MatchLoop(
                     [listeners |-> IF r.ret = "true" THEN Append(acc.listeners, k)
                                    ELSE acc.listeners,
                      contexts  |-> IF r.ret = "true" THEN Append(acc.contexts, st.c)
                                    ELSE acc.contexts,
                      xd |-> r.xd, ph |-> r.ph, thrown |-> FALSE, hist |-> h],
                     c, registry, answers, k + 1)

\* a test that takes every payload as addressed to the bot
AddressedAlways(p) == TRUE

\* line 86: payload.data contains "@" + botName
Addressed(p) == p.addressed

\* a test that takes every payload as a plain message
IsPlainMessageAlways(p) == TRUE

\* line 89: payload.type === IPayloadType.MESSAGE
IsPlainMessage(p) == p.type = "MESSAGE"

(***************************************************************************)
(* matchMessage (lines 74-137) on the inbound context c with payload p =   *)
(* [addressed, type, answers]: addressed says whether payload.data         *)
(* contains "@" + botName.  The result is [ret, c, xd, ph, hist]; ret is   *)
(* "true", "false" or "undefined" (the catch block returns nothing).       *)
(***************************************************************************)
MatchResult(c, p, registry, xdh, ph, h) ==
    LET acc0 == [listeners |-> <<>>, contexts |-> <<>>, xd |-> xdh, ph |-> ph,
                 thrown |-> FALSE, hist |-> h]
    IN
    IF ~Addressed(p)
    THEN [ret |-> "false", c |-> c, xd |-> xdh, ph |-> ph, hist |-> h]
    ELSE
        LET acc == IF IsPlainMessage(p)
                   THEN MatchLoop(acc0, c, registry, p.answers, 1)
                   ELSE [acc0 EXCEPT !.hist = Append(@, Ev("error", 0, 0, NoCtx, <<"payload type">>))]
        IN
        IF acc.thrown
        THEN [ret |-> "undefined", c |-> c, xd |-> acc.xd, ph |-> acc.ph,
              hist |-> Append(acc.hist, Ev("error", 0, 0, NoCtx, <<"exception">>))]
        ELSE
            LET c2  == IF c.xdRef = NoRef THEN [c EXCEPT !.xdRef = c.id] ELSE c
                xd2 == IF c.xdRef = NoRef
                       THEN (c.id :> [EmptyExtra EXCEPT !.listeners = acc.listeners,
                                                        !.contexts = acc.contexts,
                                                        !.keys = {"listeners", "contexts"}])
                            @@ acc.xd
                       ELSE [acc.xd EXCEPT ![c.xdRef].listeners = acc.listeners,
                                           ![c.xdRef].contexts = acc.contexts,
                                           ![c.xdRef].keys = @ \cup {"listeners", "contexts"}]
            IN  [ret |-> IF Len(acc.listeners) > 0 THEN "true" ELSE "false",
                 c |-> c2, xd |-> xd2, ph |-> acc.ph, hist |-> acc.hist]

(***************************************************************************)
(* processMessage (lines 140-202), an async function: it runs from one     *)
(* await to the next.  Each piece below gives [pc, idx, evs]: where the    *)
(* function waits next, its loop index, and the calls it made, in order.   *)
(*   pc = "login"    awaiting the send of the login prompt (line 149)      *)
(*   pc = "process"  awaiting listener i's processMessage (line 186)       *)
(*   pc = "send"     awaiting the send of listener i's reply (line 190)    *)
(*   pc = "done"     returned normally                                     *)
(*   pc = "rejected" an exception left processMessage                      *)
(***************************************************************************)
\* events: e is the call, i the loop index, who the registry index of the listener
\* (0: none), target the context passed, body a tuple: the messages or the answer
\* what the listener at registry index who returns from processMessage
Reply(who) == <<"reply", who>>
LoginPrompt == <<"login prompt">>

MatchedListeners(c, xdh) == xdh[c.xdRef].listeners
ListenerContexts(c, xdh) == xdh[c.xdRef].contexts

\* a limit that a pluginLimit of 0 does not clip
EffectiveLimitZeroUnlimited(pl, n) == IF pl <= 0 \/ pl > n THEN n ELSE pl

\* lines 176-180
EffectiveLimit(pl, n) == IF pl < 0 \/ pl > n THEN n ELSE pl

\* the login prompt sent to the inbound context itself
LoginTargetOriginal(c, xdh) == c

\* line 149: the context the login prompt is sent to
LoginTarget(c, xdh) ==
    IF Len(ListenerContexts(c, xdh)) >= 1 THEN ListenerContexts(c, xdh)[1] ELSE NoCtx

\* line 183 and 186: the loop test, and the call of listener i
LoopHead(i, lim, c, xdh) ==
    IF i < lim
    THEN [pc |-> "process", idx |-> i,
          evs |-> << Ev("process", i, MatchedListeners(c, xdh)[i + 1],
                        ListenerContexts(c, xdh)[i + 1], <<>>) >>]
    ELSE [pc |-> "done", idx |-> i, evs |-> <<>>]

\* a dispatch that prompts for login and then runs the listeners all the same
StartProcessNoGate(auth, c, xdh, pl) ==
    LET lim  == EffectiveLimit(pl, Len(MatchedListeners(c, xdh)))
        head == LoopHead(0, lim, c, xdh)
        asked == << Ev("isAuthenticated", 0, 0, c, <<auth>>) >>
    IN  [pc |-> head.pc, idx |-> 0, limit |-> lim,
         evs |-> asked
                 \o (IF auth THEN <<>>
                     ELSE << Ev("send", 0, 0, LoginTarget(c, xdh), LoginPrompt) >>)
                 \o head.evs]

\* lines 143-183: from the call of processMessage to its first await
StartProcess(auth, c, xdh, pl) ==
    LET lim  == EffectiveLimit(pl, Len(MatchedListeners(c, xdh)))
        head == LoopHead(0, lim, c, xdh)
        asked == << Ev("isAuthenticated", 0, 0, c, <<auth>>) >>
    IN  IF ~auth
        THEN [pc |-> "login", idx |-> 0, limit |-> 0,
              evs |-> asked \o << Ev("send", 0, 0, LoginTarget(c, xdh), LoginPrompt) >>]
        ELSE [pc |-> head.pc, idx |-> 0, limit |-> lim, evs |-> asked \o head.evs]


\* a loop that goes on to the next listener when one raises
OnProcessedContinue(ok, i, lim, c, xdh) ==
    LET who == MatchedListeners(c, xdh)[i + 1]
        head == LoopHead(i + 1, lim, c, xdh)
    IN  IF ok
        THEN [pc |-> "send", idx |-> i,
              evs |-> << Ev("processed", i, who, NoCtx, Reply(who)),
                         Ev("send", i, who, ListenerContexts(c, xdh)[i + 1], Reply(who)) >>]
        ELSE [pc |-> head.pc, idx |-> head.idx,
              evs |-> << Ev("processFailed", i, who, NoCtx, <<>>),
                         Ev("error", i, 0, NoCtx, <<"exception">>) >> \o head.evs]

\* a loop that calls the next listener before it sends the reply of this one
OnProcessedEager(ok, i, lim, c, xdh) ==
    LET who == MatchedListeners(c, xdh)[i + 1]
        head == LoopHead(i + 1, lim, c, xdh)
    IN  IF ok
        THEN [pc |-> "send", idx |-> i,
              evs |-> << Ev("processed", i, who, NoCtx, Reply(who)) >> \o head.evs
                      \o << Ev("send", i, who, ListenerContexts(c, xdh)[i + 1], Reply(who)) >>]
        ELSE [pc |-> "done", idx |-> i,
              evs |-> << Ev("processFailed", i, who, NoCtx, <<>>),
                         Ev("error", i, 0, NoCtx, <<"exception">>) >>]

\* a loop that sends every reply to the context of the first matched listener
OnProcessedToFirst(ok, i, lim, c, xdh) ==
    LET who == MatchedListeners(c, xdh)[i + 1]
    IN  IF ok
        THEN [pc |-> "send", idx |-> i,
              evs |-> << Ev("processed", i, who, NoCtx, Reply(who)),
                         Ev("send", i, who, ListenerContexts(c, xdh)[1], Reply(who)) >>]
        ELSE [pc |-> "done", idx |-> i,
              evs |-> << Ev("processFailed", i, who, NoCtx, <<>>),
                         Ev("error", i, 0, NoCtx, <<"exception">>) >>]

\* lines 186-190 and 192-195: listener i's processMessage has settled
OnProcessed(ok, i, lim, c, xdh) ==
    LET who == MatchedListeners(c, xdh)[i + 1]
    IN  IF ok
        THEN [pc |-> "send", idx |-> i,
              evs |-> << Ev("processed", i, who, NoCtx, Reply(who)),
                         Ev("send", i, who, ListenerContexts(c, xdh)[i + 1], Reply(who)) >>]
        ELSE [pc |-> "done", idx |-> i,
              evs |-> << Ev("processFailed", i, who, NoCtx, <<>>),
                         Ev("error", i, 0, NoCtx, <<"exception">>) >>]

\* lines 190-191, 183 and 192-195: the send of listener i's reply has settled
OnSent(ok, i, lim, c, xdh) ==
    LET who == MatchedListeners(c, xdh)[i + 1]
        head == LoopHead(i + 1, lim, c, xdh)
    IN  IF ok
        THEN [pc |-> head.pc, idx |-> head.idx,
              evs |-> << Ev("sent", i, who, NoCtx, <<>>) >> \o head.evs]
        ELSE [pc |-> "done", idx |-> i,
              evs |-> << Ev("sendFailed", i, who, NoCtx, <<>>),
                         Ev("error", i, 0, NoCtx, <<"exception">>) >>]


\* lines 149-154: the send of the login prompt has settled; nothing catches
OnLoginSent(ok) ==
    IF ok
    THEN [pc |-> "done", idx |-> 0, evs |-> << Ev("sent", 0, 0, NoCtx, <<>>) >>]
    ELSE [pc |-> "rejected", idx |-> 0, evs |-> << Ev("sendFailed", 0, 0, NoCtx, <<>>) >>]

\* the transport calls processMessage for the messages matchMessage answered true for
Dispatchable(m) == matchRet[m] = "true"

(***************************************************************************)
(* SlackListener.listen (part_000, lines 28-50), an async function with    *)
(* one await, on middleware.run() (line 38).  A listen call is at          *)
(*   "idle"    not called yet                                              *)
(*   "run"     awaiting the run of the middleware it created               *)
(*   "done"    returned, its (matcher, handler) pair added                 *)
(*   "caught"  returned, the exception of run logged by the catch block    *)
(* A SlackMiddleware object is named by its number of creation; its state  *)
(* is "running", "ran" or "failed".                                        *)
(***************************************************************************)
\* listen calls
MaxCalls == 4
Calls == 1..MaxCalls

\* bot.getMiddleware() before any setMiddleware
NoMiddleware == 0

\* what a listen call did: e the call made, call the listen call, mw the
\* middleware object, st the state of the bot's middleware at that moment
SlackEv(e, call, mw, st) == [e |-> e, call |-> call, mw |-> mw, st |-> st]

InstalledState(installed, states) ==
    IF installed = NoMiddleware THEN "none" ELSE states[installed]

\* a listen that runs the middleware it creates without setting it on the bot
ListenEnterNotInstalled(call, installed, states) ==
    IF installed = NoMiddleware
    THEN LET id == Len(states) + 1
         IN  [pc |-> "run", local |-> id, installed |-> installed,
              states |-> Append(states, "running"), added |-> FALSE,
              evs |-> << SlackEv("new", call, id, "none"),
                         SlackEv("run", call, id, "none") >>]
    ELSE [pc |-> "done", local |-> installed, installed |-> installed,
          states |-> states, added |-> TRUE,
          evs |-> << SlackEv("addMatcher", call, installed,
                             InstalledState(installed, states)) >>]

\* lines 34-38 and 42: from the call of listen to its await or its return
ListenEnter(call, installed, states) ==
    IF installed = NoMiddleware
    THEN LET id == Len(states) + 1
         IN  [pc |-> "run", local |-> id, installed |-> id,
              states |-> Append(states, "running"), added |-> FALSE,
              evs |-> << SlackEv("new", call, id, "none"),
                         SlackEv("setMiddleware", call, id, "none"),
                         SlackEv("run", call, id, "none") >>]
    ELSE [pc |-> "done", local |-> installed, installed |-> installed,
          states |-> states, added |-> TRUE,
          evs |-> << SlackEv("addMatcher", call, installed,
                             InstalledState(installed, states)) >>]

\* lines 38-45: the awaited run of the call's middleware has settled
OnRun(ok, call, local, installed, states) ==
    IF ok
    THEN LET after == [states EXCEPT ![local] = "ran"]
         IN  [pc |-> "done", states |-> after, added |-> TRUE,
              evs |-> << SlackEv("addMatcher", call, local,
                                 InstalledState(installed, after)) >>]
    ELSE [pc |-> "caught", states |-> [states EXCEPT ![local] = "failed"], added |-> FALSE,
          evs |-> << SlackEv("error", call, local, "failed") >>]

NoListenState ==
    /\ middleware = NoMiddleware
    /\ mwState = <<>>
    /\ listenPc = [call \in Calls |-> "idle"]
    /\ listenMw = [call \in Calls |-> NoMiddleware]
    /\ matchers = <<>>
    /\ slackLog = <<>>

\* listen is called (lines 28-42)
listen(call) ==
    /\ listenPc[call] = "idle"
    /\ LET r == ListenEnter(call, middleware, mwState)
       IN  /\ listenPc' = [listenPc EXCEPT ![call] = r.pc]
           /\ listenMw' = [listenMw EXCEPT ![call] = r.local]
           /\ middleware' = r.installed
           /\ mwState' = r.states
           /\ matchers' = IF r.added THEN Append(matchers, call) ELSE matchers
           /\ slackLog' = slackLog \o r.evs
    /\ UNCHANGED <<phase, pluginLimit>>
    /\ UNCHANGED loadVars
    /\ UNCHANGED msgVars

\* the awaited middleware.run() settles (lines 38-49)
RunSettles(call) ==
    /\ listenPc[call] = "run"
    /\ \E ok \in BOOLEAN :
        LET r == OnRun(ok, call, listenMw[call], middleware, mwState)
        IN  /\ listenPc' = [listenPc EXCEPT ![call] = r.pc]
            /\ mwState' = r.states
            /\ matchers' = IF r.added THEN Append(matchers, call) ELSE matchers
            /\ slackLog' = slackLog \o r.evs
    /\ UNCHANGED <<middleware, listenMw>>
    /\ UNCHANGED <<phase, pluginLimit>>
    /\ UNCHANGED loadVars
    /\ UNCHANGED msgVars

(***************************************************************************)
(* ChatBot constructor and run                                             *)
(***************************************************************************)
NoMsgState ==
    /\ pc = [m \in Msgs |-> "absent"]
    /\ ctx = [m \in Msgs |-> [c |-> NoCtx, payload |-> [addressed |-> FALSE, type |-> "none",
                                                       answers |-> <<>>]]]
    /\ xd = <<>>
    /\ matchRet = [m \in Msgs |-> NULL]
    /\ idx = [m \in Msgs |-> 0]
    /\ limit = [m \in Msgs |-> 0]
    /\ hist = [m \in Msgs |-> <<>>]

InitWith(limits) ==
    /\ phase = "new"
    /\ manifest = NoManifest
    /\ pluginHeap = <<>>
    /\ chatListeners = <<>>
    /\ eventListeners = <<>>
    /\ plugins = <<>>
    /\ loadLog = <<>>
    /\ pluginLimit \in limits
    /\ NoMsgState
    /\ NoListenState

\* setBotListeners (lines 213-230)
setBotListeners ==
    /\ phase = "new"
    /\ phase' = "coreRegistered"
    /\ chatListeners' = registerChatListener(chatListeners, CoreEntry)
    /\ pluginHeap' = (CoreRef :> CorePlugin)
    /\ UNCHANGED <<manifest, eventListeners, plugins, loadLog, pluginLimit>>
    /\ UNCHANGED msgVars
    /\ UNCHANGED slackVars

\* a bot that also loads plugins after it has started listening
loadPluginsWhileServing(mans) ==
    /\ phase \in {"coreRegistered", "serving"}
    /\ \E man \in mans :
        LET r == LoadResult(man, chatListeners, eventListeners)
        IN  /\ manifest' = man
            /\ pluginHeap' = [i \in 0..Len(man.list) |->
                                IF i = CoreRef THEN pluginHeap[CoreRef]
                                ELSE PluginObject(man.list[i], i)]
            /\ chatListeners' = r.ml
            /\ eventListeners' = r.el
            /\ plugins' = r.plugins
            /\ loadLog' = r.log
            /\ phase' = IF r.thrown THEN "exited"
                        ELSE IF phase = "serving" THEN "serving" ELSE "constructed"
    /\ UNCHANGED pluginLimit
    /\ UNCHANGED msgVars
    /\ UNCHANGED slackVars

\* loadPlugins (lines 238-340), on a manifest of the set mans, called by the
\* constructor (line 166); an exception that left it would reach the
\* constructor's catch block, which ends the process (lines 169-172)
loadPlugins(mans) ==
    /\ phase = "coreRegistered"
    /\ \E man \in mans :
        LET r == LoadResult(man, chatListeners, eventListeners)
        IN  /\ manifest' = man
            /\ pluginHeap' = [i \in 0..Len(man.list) |->
                                IF i = CoreRef THEN pluginHeap[CoreRef]
                                ELSE PluginObject(man.list[i], i)]
            /\ chatListeners' = r.ml
            /\ eventListeners' = r.el
            /\ plugins' = r.plugins
            /\ loadLog' = r.log
            /\ phase' = IF r.thrown THEN "exited" ELSE "constructed"
    /\ UNCHANGED pluginLimit
    /\ UNCHANGED msgVars
    /\ UNCHANGED slackVars

\* ChatBot.run (lines 178-208): the bot starts listening
run ==
    /\ phase = "constructed"
    /\ phase' = "serving"
    /\ UNCHANGED loadVars
    /\ UNCHANGED pluginLimit
    /\ UNCHANGED msgVars
    /\ UNCHANGED slackVars

(***************************************************************************)
(* Serving                                                                 *)
(***************************************************************************)
\* the transport delivers an inbound message
Arrive(m) ==
    /\ phase = "serving"
    /\ pc[m] = "absent"
    /\ \E addressed \in BOOLEAN, type \in {"MESSAGE", "EVENT"}, hasExtra \in BOOLEAN,
          answers \in Answers(chatListeners) :
        /\ ctx' = [ctx EXCEPT ![m] =
                     [c |-> [id |-> OrigId(m), xdRef |-> IF hasExtra THEN OrigId(m) ELSE NoRef],
                      payload |-> [addressed |-> addressed, type |-> type,
                                   answers |-> answers]]]
        /\ xd' = IF hasExtra
                 THEN (OrigId(m) :> [EmptyExtra EXCEPT !.note = "inbound", !.keys = {"note"}]) @@ xd
                 ELSE xd
    /\ pc' = [pc EXCEPT ![m] = "arrived"]
    /\ UNCHANGED <<phase, pluginLimit, matchRet, idx, limit, hist>>
    /\ UNCHANGED loadVars
    /\ UNCHANGED slackVars

\* matchMessage (lines 74-137)
matchMessage(m) ==
    /\ phase = "serving"
    /\ pc[m] = "arrived"
    /\ LET r == MatchResult(ctx[m].c, ctx[m].payload, chatListeners, xd, pluginHeap, hist[m])
       IN  /\ matchRet' = [matchRet EXCEPT ![m] = r.ret]
           /\ ctx' = [ctx EXCEPT ![m].c = r.c]
           /\ xd' = r.xd
           /\ pluginHeap' = r.ph
           /\ hist' = [hist EXCEPT ![m] = r.hist]
           /\ pc' = [pc EXCEPT ![m] = "matched"]
    /\ UNCHANGED <<phase, manifest, chatListeners, eventListeners, plugins, loadLog,
                   pluginLimit, idx, limit>>
    /\ UNCHANGED slackVars

Moved(m, r) ==
    /\ pc' = [pc EXCEPT ![m] = r.pc]
    /\ idx' = [idx EXCEPT ![m] = r.idx]
    /\ hist' = [hist EXCEPT ![m] = @ \o r.evs]

\* processMessage is called (lines 140-186)
processMessage(m) ==
    /\ pc[m] = "matched"
    /\ Dispatchable(m)
    /\ \E auth \in BOOLEAN :
        LET r == StartProcess(auth, ctx[m].c, xd, pluginLimit)
        IN  /\ Moved(m, r)
            /\ limit' = [limit EXCEPT ![m] = r.limit]
    /\ UNCHANGED <<phase, pluginLimit, ctx, xd, matchRet>>
    /\ UNCHANGED loadVars
    /\ UNCHANGED slackVars

\* the awaited listener's processMessage settles (lines 186-190)
ListenerSettles(m) ==
    /\ pc[m] = "process"
    /\ \E ok \in BOOLEAN : Moved(m, OnProcessed(ok, idx[m], limit[m], ctx[m].c, xd))
    /\ UNCHANGED <<phase, pluginLimit, ctx, xd, matchRet, limit>>
    /\ UNCHANGED loadVars
    /\ UNCHANGED slackVars

\* the awaited send of a reply settles (lines 190-191)
SendSettles(m) ==
    /\ pc[m] = "send"
    /\ \E ok \in BOOLEAN : Moved(m, OnSent(ok, idx[m], limit[m], ctx[m].c, xd))
    /\ UNCHANGED <<phase, pluginLimit, ctx, xd, matchRet, limit>>
    /\ UNCHANGED loadVars
    /\ UNCHANGED slackVars

\* the awaited send of the login prompt settles (lines 149-154)
LoginSendSettles(m) ==
    /\ pc[m] = "login"
    /\ \E ok \in BOOLEAN : Moved(m, OnLoginSent(ok))
    /\ UNCHANGED <<phase, pluginLimit, ctx, xd, matchRet, limit>>
    /\ UNCHANGED loadVars
    /\ UNCHANGED slackVars

(***************************************************************************)
(* Specifications                                                          *)
(***************************************************************************)
\* the loader: every manifest up to MaxPlugins plugins; pluginLimit is not read
InitLoad == InitWith({-1})
LoadAll == loadPlugins(Manifests(PluginKinds, Priorities, MaxPlugins))
NextLoad == setBotListeners \/ LoadAll \/ run
SpecLoad == InitLoad /\ [][NextLoad]_vars

\* serving: plugins that load, every pluginLimit up to MaxLimit
ServeKinds ==
    { [listeners |-> <<FooML>>,        env |-> "ok", failAt |-> 0],
      [listeners |-> <<FooML, BarML>>, env |-> "ok", failAt |-> 0] }
ServeManifests ==
    { man \in Manifests(ServeKinds, {1, 2}, MaxServePlugins) : man.file = "ok" }
Init == InitWith(-1..MaxLimit)
LoadServe == loadPlugins(ServeManifests)
Next ==
    \/ setBotListeners
    \/ LoadServe
    \/ run
    \/ \E m \in OneMsg :
        \/ Arrive(m)
        \/ matchMessage(m)
        \/ processMessage(m)
        \/ ListenerSettles(m)
        \/ SendSettles(m)
        \/ LoginSendSettles(m)
Spec == Init /\ [][Next]_vars

(***************************************************************************)
(* The registry by itself: registerChatListener is public, and is called   *)
(* here with any entries, in any order; loadLog holds what the calls       *)
(* logged.                                                                 *)
(***************************************************************************)
\* calls of registerChatListener in the registry specification
MaxRegistered == 3

\* getChatListener (lines 69-71) returns the array
getChatListener(registry) == registry

\* lines 60-61: what registerChatListener logs for an entry
RegisterLogged(entry) ==
    <<"register", entry.listenerName, entry.listenerType, entry.chatPlugin>>

RegistryEntries ==
    { [listenerName |-> n, listenerType |-> "MESSAGE", chatPlugin |-> r] :
        n \in {FooML, BarML}, r \in {CoreRef, 1, 2} }

\* one call of registerChatListener (lines 55-66)
registerCall ==
    /\ Len(loadLog) < MaxRegistered
    /\ \E entry \in RegistryEntries :
        /\ loadLog' = Append(loadLog, RegisterLogged(entry))
        /\ chatListeners' = registerChatListener(chatListeners, entry)
    /\ UNCHANGED <<phase, manifest, pluginHeap, eventListeners, plugins, pluginLimit>>
    /\ UNCHANGED msgVars
    /\ UNCHANGED slackVars

InitRegistry == InitWith({-1})
NextRegistry == registerCall
SpecRegistry == InitRegistry /\ [][NextRegistry]_vars

(***************************************************************************)
(* Concurrent serving: the transport delivers two messages, whose          *)
(* matchMessage and processMessage calls interleave at the awaits.  One    *)
(* plugin with one message listener is loaded, and pluginLimit is -1.      *)
(***************************************************************************)
ConcManifests ==
    { [file |-> "ok",
       list |-> << [listeners |-> <<FooML>>, env |-> "ok", failAt |-> 0, priority |-> 2] >>] }
InitConc == InitWith({-1})
LoadConc == loadPlugins(ConcManifests)
NextConc ==
    \/ setBotListeners
    \/ LoadConc
    \/ run
    \/ \E m \in Msgs :
        \/ Arrive(m)
        \/ matchMessage(m)
        \/ processMessage(m)
        \/ ListenerSettles(m)
        \/ SendSettles(m)
        \/ LoginSendSettles(m)
SpecConc == InitConc /\ [][NextConc]_vars

(***************************************************************************)
(* The Slack listener by itself: listen is called up to MaxCalls times,    *)
(* and a call may begin while another awaits the run of the middleware.    *)
(***************************************************************************)
InitSlack == InitWith({-1})
NextSlack == \E call \in Calls : listen(call) \/ RunSettles(call)
SpecSlack == InitSlack /\ [][NextSlack]_vars

(***************************************************************************)
(* Properties                                                              *)
(***************************************************************************)
Matched(m) == pc[m] \notin {"absent", "arrived"}
Loaded == phase \in {"constructed", "serving"}

Has(m, kind) == \E p \in 1..Len(hist[m]) : hist[m][p].e = kind
Only(m, kinds) == SelectSeq(hist[m], LAMBDA ev : ev.e \in kinds)
Whos(evs) == [p \in 1..Len(evs) |-> evs[p].who]

Unauthenticated(m) ==
    \E p \in 1..Len(hist[m]) : hist[m][p].e = "isAuthenticated" /\ hist[m][p].body = <<FALSE>>
Authenticated(m) ==
    \E p \in 1..Len(hist[m]) : hist[m][p].e = "isAuthenticated" /\ hist[m][p].body = <<TRUE>>

\* the match result matchMessage left on the inbound context
Result(m) == xd[ctx[m].c.xdRef]

Min(a, b) == IF a < b THEN a ELSE b

\* C1: for an unauthenticated sender no listener's processMessage is called and
\* exactly one send, the login prompt, is issued, whatever the match count and
\* pluginLimit.
AuthGate ==
    \A m \in Msgs :
        Unauthenticated(m) =>
            /\ ~Has(m, "process")
            /\ Len(Only(m, {"send"})) = 1
            /\ Only(m, {"send"})[1].body = LoginPrompt

AuthGateWitness ==
    \E m \in Msgs :
        /\ pc[m] = "done"
        /\ Unauthenticated(m)
        /\ Len(Result(m).listeners) >= 2
        /\ pluginLimit \in {-1, 2}

\* C2: for an authenticated sender and no failure, the listeners invoked are
\* exactly the first min(pluginLimit, matchCount) of the match result in match
\* order (all of them when pluginLimit < 0), each with one send.
PluginLimitClips ==
    \A m \in Msgs :
        (pc[m] = "done" /\ Authenticated(m)
            /\ ~Has(m, "processFailed") /\ ~Has(m, "sendFailed")) =>
            LET n   == Len(Result(m).listeners)
                lim == IF pluginLimit < 0 THEN n ELSE Min(pluginLimit, n)
            IN  /\ Whos(Only(m, {"process"})) = SubSeq(Result(m).listeners, 1, lim)
                /\ Whos(Only(m, {"send"})) = SubSeq(Result(m).listeners, 1, lim)

PluginLimitWitness ==
    \E m \in Msgs :
        /\ pc[m] = "done" /\ Authenticated(m)
        /\ ~Has(m, "processFailed") /\ ~Has(m, "sendFailed")
        /\ pluginLimit = 2
        /\ Len(Result(m).listeners) = 3
        /\ Len(Only(m, {"process"})) = 2

\* C3: within one dispatch the listeners run one at a time in match order: the
\* call of listener i comes right after the completed send of listener i-1, the
\* send of listener i right after listener i returned, and nothing is started
\* while a call or a send is outstanding.
SequentialDispatch ==
    \A m \in Msgs :
        LET h == hist[m] IN
        /\ \A p \in 1..Len(h) :
            /\ (h[p].e = "process" /\ h[p].i > 0) =>
                   /\ h[p-1].e = "sent" /\ h[p-1].i = h[p].i - 1
            /\ (h[p].e = "process" /\ h[p].i = 0) => h[p-1].e = "isAuthenticated"
            /\ (h[p].e = "send" /\ h[p].body # LoginPrompt) =>
                   /\ h[p-1].e = "processed" /\ h[p-1].i = h[p].i
                   /\ h[p-1].who = h[p].who
            /\ (h[p].e = "process" /\ p < Len(h)) =>
                   /\ h[p+1].e \in {"processed", "processFailed"} /\ h[p+1].i = h[p].i
            /\ (h[p].e = "send" /\ p < Len(h)) =>
                   /\ h[p+1].e \in {"sent", "sendFailed"} /\ h[p+1].i = h[p].i
        /\ Authenticated(m) =>
            LET sends == Only(m, {"send"})
            IN  /\ Len(sends) <= Len(Result(m).listeners)
                /\ Whos(sends) = SubSeq(Result(m).listeners, 1, Len(sends))
                /\ \A p \in 1..Len(sends) : sends[p].i = p - 1

SequentialWitness ==
    \E m \in Msgs :
        /\ pc[m] = "done"
        /\ Len(Only(m, {"sent"})) = 3
        /\ Result(m).listeners = <<1, 2, 3>>

\* C4: when the listener at index k raises, nothing is sent for k, no later
\* listener is invoked and nothing later is sent, the error is logged and
\* processMessage returns normally; the listeners before k were processed and
\* sent.
FailStop ==
    \A m \in Msgs :
        LET h == hist[m] IN
        \A p \in 1..Len(h) :
            h[p].e = "processFailed" =>
                /\ Len(h) = p + 1
                /\ h[p+1].e = "error"
                /\ pc[m] = "done"
                /\ phase = "serving"
                /\ \A q \in 1..Len(h) : h[q].e \in {"process", "send"} => h[q].i <= h[p].i
                /\ ~\E q \in 1..Len(h) : h[q].e = "send" /\ h[q].i = h[p].i
                /\ \A j \in 0..(h[p].i - 1) :
                       \E q \in 1..p : h[q].e = "sent" /\ h[q].i = j

FailStopWitness ==
    \E m \in Msgs :
        /\ limit[m] = 3
        /\ \E p \in 1..Len(hist[m]) : hist[m][p].e = "processFailed" /\ hist[m][p].i = 1

\* C5: no exception raised by a listener's processMessage or by a send leaves
\* processMessage, on the login-prompt path as on the listener loop.
NoExceptionEscapes == \A m \in Msgs : pc[m] # "rejected"

\* C6 as stated: for every inbound context, matchMessage returns true iff some
\* registered listener's matchMessage answers true for it.
MatchIffSomeListener ==
    \A m \in Msgs :
        Matched(m) =>
            (matchRet[m] = "true"
                <=> \E k \in 1..Len(chatListeners) : Says(ctx[m].payload.answers[k]) = "true")

Eligible(m) ==
    /\ ctx[m].payload.addressed
    /\ ctx[m].payload.type = "MESSAGE"
    /\ \A k \in 1..Len(chatListeners) : Says(ctx[m].payload.answers[k]) # "throw"

\* C6 amended: for a context that addresses the bot, carries a plain message
\* and makes no listener raise, matchMessage returns true iff some listener
\* answers true, and the match set is in registry order; for any other context
\* it does not return true.
MatchIffSomeListenerAddressed ==
    \A m \in Msgs :
        Matched(m) =>
            /\ Eligible(m) =>
                /\ matchRet[m] = "true"
                     <=> \E k \in 1..Len(chatListeners) :
                            Says(ctx[m].payload.answers[k]) = "true"
                /\ \A i, j \in 1..Len(Result(m).listeners) :
                      i < j => Result(m).listeners[i] < Result(m).listeners[j]
                /\ \A i \in 1..Len(Result(m).listeners) :
                      Says(ctx[m].payload.answers[Result(m).listeners[i]]) = "true"
            /\ ~Eligible(m) => matchRet[m] # "true"

MatchWitness ==
    \E m \in Msgs :
        /\ Matched(m) /\ Eligible(m)
        /\ matchRet[m] = "true"
        /\ Result(m).listeners = <<1, 3>>

\* C7: the clones of one matchMessage call are independent of each other, of
\* the inbound context and of the registry: each has its own extraData, and
\* what a listener writes through its clone (extraData.chatPlugin included)
\* shows nowhere else.
CloneIndependence ==
    /\ phase = "serving" =>
          \A r \in DOMAIN pluginHeap :
              pluginHeap[r] = IF r = CoreRef THEN CorePlugin
                              ELSE PluginObject(manifest.list[r], r)
    /\ \A m \in Msgs :
          Matched(m) =>
              /\ \A p \in 1..Len(hist[m]) :
                    hist[m][p].e = "consult" =>
                        /\ hist[m][p].target.xdRef = CloneId(m, hist[m][p].who)
                        /\ hist[m][p].target.xdRef # ctx[m].c.xdRef
              /\ ctx[m].c.xdRef # NoRef =>
                    Result(m).note \in {NULL, "inbound"}

\* C8: the plugin listeners are registered, and the plugins recorded, in the
\* stable order of the manifest by ascending priority: of two registered
\* entries the earlier has the lower priority, or the same priority and the
\* earlier manifest position, or the same plugin and the earlier declared
\* position; when every plugin loads, every plugin is recorded.
InOrder(a, b) ==
    LET pa == manifest.list[a].priority
        pb == manifest.list[b].priority
    IN  pa < pb \/ (pa = pb /\ a < b)

EntriesInOrder(registry) ==
    \A i, j \in 1..Len(registry) :
        (i < j /\ registry[i].chatPlugin # CoreRef /\ registry[j].chatPlugin # CoreRef) =>
            LET a == registry[i]
                b == registry[j]
            IN  \/ InOrder(a.chatPlugin, b.chatPlugin)
                \/ /\ a.chatPlugin = b.chatPlugin
                   /\ IndexOf(a.listenerName, manifest.list[a.chatPlugin].listeners)
                        < IndexOf(b.listenerName, manifest.list[b.chatPlugin].listeners)

LoadOrder ==
    Loaded =>
        /\ EntriesInOrder(chatListeners)
        /\ EntriesInOrder(eventListeners)
        /\ \A i, j \in 1..Len(plugins) : i < j => InOrder(plugins[i], plugins[j])
        /\ (\A r \in 1..Len(manifest.list) : manifest.list[r].env = "ok") =>
              Len(plugins) = Len(manifest.list)

LoadOrderWitness ==
    /\ Loaded
    /\ Len(manifest.list) = 3
    /\ [r \in 1..3 |-> manifest.list[r].priority] = <<3, 1, 1>>
    /\ plugins = <<2, 3, 1>>
    /\ Len(chatListeners) = 4

\* C9: a plugin that fails to load never aborts the pass: every valid plugin of
\* the manifest is recorded as loaded and has each of its message and event
\* listeners registered.
Registered(registry, r, name) ==
    \E i \in 1..Len(registry) : registry[i].chatPlugin = r /\ registry[i].listenerName = name

PluginFailureIsolated ==
    (Loaded /\ manifest.file = "ok") =>
        \A r \in 1..Len(manifest.list) :
            manifest.list[r].env = "ok" =>
                /\ \E i \in 1..Len(plugins) : plugins[i] = r
                /\ \A k \in 1..Len(manifest.list[r].listeners) :
                      LET name == manifest.list[r].listeners[k]
                      IN  /\ endsWith(name, "MessageListener")
                                => Registered(chatListeners, r, name)
                          /\ endsWith(name, "EventListener")
                                => Registered(eventListeners, r, name)

FirstMatch(m) ==
    CHOOSE k \in 1..Len(chatListeners) :
        /\ Says(ctx[m].payload.answers[k]) = "true"
        /\ \A j \in 1..(k - 1) : Says(ctx[m].payload.answers[j]) # "true"

LoginSends(m) == SelectSeq(hist[m], LAMBDA ev : ev.e = "send" /\ ev.body = LoginPrompt)

\* C10 as stated: the login prompt is addressed to the inbound context passed
\* to processMessage.
LoginPromptToOriginal ==
    \A m \in Msgs :
        \A p \in 1..Len(LoginSends(m)) : LoginSends(m)[p].target = ctx[m].c

\* C10 amended: the login prompt is addressed to the first context of the match
\* result, the clone the first matched listener was consulted with, and not to
\* the inbound context.
LoginPromptToFirstClone ==
    \A m \in Msgs :
        \A p \in 1..Len(LoginSends(m)) :
            /\ LoginSends(m)[p].target.id = CloneId(m, FirstMatch(m))
            /\ LoginSends(m)[p].target # ctx[m].c

LoginPromptWitness ==
    \E m \in Msgs :
        /\ Len(LoginSends(m)) = 1
        /\ FirstMatch(m) = 2
        /\ Len(Result(m).listeners) = 2

\* C11: load, then serve.  The bot moves one way from loading to serving: once
\* it serves it keeps serving, the two registries change only before it serves,
\* no message is matched before it serves, and from the moment a message has
\* begun being matched the registries never change again, so every
\* matchMessage call consults the same final registry.
LoadThenServe ==
    [][ /\ phase = "serving" => phase' = "serving"
        /\ (chatListeners' # chatListeners \/ eventListeners' # eventListeners)
              => phase \in {"new", "coreRegistered"}
        /\ (\E m \in Msgs : pc[m] # "absent")
              => (chatListeners' = chatListeners /\ eventListeners' = eventListeners)
        /\ \A m \in Msgs :
              /\ pc'[m] # "absent" => phase' = "serving"
              /\ Len(Only(m, {"consult"})) <= Len(chatListeners) ]_vars

LoadThenServeWitness ==
    \E m \in Msgs :
        /\ phase = "serving"
        /\ Matched(m)
        /\ Len(chatListeners) = 3
        /\ Whos(Only(m, {"consult"})) = <<1, 2, 3>>

\* C12: reply correspondence.  For an authenticated sender and no failure,
\* processMessage issues exactly as many sends as the effective limit, and the
\* i-th send carries the messages the i-th matched listener's processMessage
\* returned and is addressed to the clone that listener was consulted with.
ReplyCorrespondence ==
    \A m \in Msgs :
        (pc[m] = "done" /\ Authenticated(m)
            /\ ~Has(m, "processFailed") /\ ~Has(m, "sendFailed")) =>
            LET sends == Only(m, {"send"})
                rets  == Only(m, {"processed"})
                n     == Len(Result(m).listeners)
                lim   == IF pluginLimit < 0 THEN n ELSE Min(pluginLimit, n)
            IN  /\ Len(sends) = lim
                /\ Len(rets) = lim
                /\ \A p \in 1..Len(sends) :
                      /\ rets[p].who = Result(m).listeners[p]
                      /\ sends[p].body = rets[p].body
                      /\ sends[p].target = Result(m).contexts[p]
                      /\ sends[p].target.id = CloneId(m, Result(m).listeners[p])

ReplyCorrespondenceWitness ==
    \E m \in Msgs :
        /\ pc[m] = "done" /\ Authenticated(m)
        /\ ~Has(m, "processFailed") /\ ~Has(m, "sendFailed")
        /\ Result(m).listeners = <<2, 3>>
        /\ Len(Only(m, {"send"})) = 2
        /\ Only(m, {"send"})[2].target.id = CloneId(m, 3)

\* C13 as stated: when the manifest exists but cannot be parsed, the parse
\* error leaves loadPlugins and reaches its caller, the constructor, whose
\* catch block ends the process.
MalformedSurfaced ==
    manifest.file = "malformed" => phase = "exited"

\* C13 amended: when the manifest exists but cannot be parsed, the parse error
\* readYamlFile raises is caught and logged by loadPlugins and goes no further:
\* loadPlugins returns normally, the manifest is read once, no plugin listener
\* is registered, no plugin is recorded, and the bot goes on to serve.
MalformedLoggedOnly ==
    manifest.file = "malformed" =>
        /\ phase \in {"constructed", "serving"}
        /\ loadLog = << <<"error">> >>
        /\ chatListeners = <<CoreEntry>>
        /\ eventListeners = <<>>
        /\ plugins = <<>>

MalformedWitness ==
    /\ manifest.file = "malformed"
    /\ phase = "serving"
    /\ loadLog = << <<"error">> >>

\* C14: when neither manifest file exists, loadPlugins registers no plugin
\* listener, the process is not terminated, and startup continues with the
\* registries holding what was registered before the load pass.
MissingManifestSkips ==
    manifest.file = "absent" =>
        /\ phase \in {"constructed", "serving"}
        /\ chatListeners = <<CoreEntry>>
        /\ eventListeners = <<>>
        /\ plugins = <<>>
        /\ loadLog = << <<"skip">> >>

MissingManifestWitness ==
    /\ manifest.file = "absent"
    /\ phase = "serving"
    /\ chatListeners = <<CoreEntry>>

\* C15: addressing check.  When the payload text does not contain "@" +
\* botName, matchMessage consults no listener, makes no clone, leaves the
\* inbound context as it was, and returns false.
UnaddressedNotConsulted ==
    \A m \in Msgs :
        (Matched(m) /\ ~ctx[m].payload.addressed) =>
            /\ matchRet[m] = "false"
            /\ ~Has(m, "consult")
            /\ \A k \in 1..Len(chatListeners) : CloneId(m, k) \notin DOMAIN xd
            /\ ctx[m].c.xdRef # NoRef => Result(m).keys = {"note"}
            /\ pc[m] = "matched"

UnaddressedWitness ==
    \E m \in Msgs :
        /\ Matched(m)
        /\ ~ctx[m].payload.addressed
        /\ ctx[m].payload.type = "MESSAGE"
        /\ Len(chatListeners) = 3
        /\ \A k \in 1..3 : Says(ctx[m].payload.answers[k]) = "true"

\* C16: match set content.  For an addressed plain message on which no
\* listener raises, every registered listener is consulted exactly once, in
\* registry order, each with its own clone; the match result is the registry
\* entries that answered true, in registry order, each paired with the clone it
\* was consulted with.
MatchSetContent ==
    \A m \in Msgs :
        (Matched(m) /\ Eligible(m)) =>
            LET n    == Len(chatListeners)
                cons == Only(m, {"consult"})
                yes  == SelectSeq([k \in 1..n |-> k],
                                  LAMBDA k : Says(ctx[m].payload.answers[k]) = "true")
            IN  /\ Whos(cons) = [k \in 1..n |-> k]
                /\ \A k \in 1..n :
                      /\ cons[k].body = <<Says(ctx[m].payload.answers[k])>>
                      /\ cons[k].target.id = CloneId(m, k)
                /\ Result(m).listeners = yes
                /\ Len(Result(m).contexts) = Len(yes)
                /\ \A i \in 1..Len(yes) : Result(m).contexts[i] = cons[yes[i]].target

MatchSetWitness ==
    \E m \in Msgs :
        /\ Matched(m) /\ Eligible(m)
        /\ Len(chatListeners) = 3
        /\ Says(ctx[m].payload.answers[1]) = "false"
        /\ Result(m).listeners = <<2, 3>>
        /\ Result(m).contexts[1].id = CloneId(m, 2)

\* C17: non-message payload.  When the payload addresses the bot but is not a
\* plain message, no listener is consulted, the match result stored on the
\* inbound context is the empty sequence, and matchMessage returns false.
NonMessageNotConsulted ==
    \A m \in Msgs :
        (Matched(m) /\ ctx[m].payload.addressed /\ ctx[m].payload.type # "MESSAGE") =>
            /\ matchRet[m] = "false"
            /\ ~Has(m, "consult")
            /\ \A k \in 1..Len(chatListeners) : CloneId(m, k) \notin DOMAIN xd
            /\ ctx[m].c.xdRef # NoRef
            /\ {"listeners", "contexts"} \subseteq Result(m).keys
            /\ Result(m).listeners = <<>>
            /\ Result(m).contexts = <<>>

NonMessageWitness ==
    \E m \in Msgs :
        /\ Matched(m)
        /\ ctx[m].payload.addressed
        /\ ctx[m].payload.type = "EVENT"
        /\ Len(chatListeners) = 3
        /\ \A k \in 1..3 : Says(ctx[m].payload.answers[k]) = "true"
        /\ Result(m).keys = {"note", "listeners", "contexts"}

\* C18: matcher error boundary.  When a listener's matchMessage raises, the
\* exception does not leave matchMessage, which returns neither true nor
\* false; the listeners after the raising one are not consulted, and the
\* matches found before it are lost: no match result is stored on the inbound
\* context, and the message is not dispatched.
Raiser(m) ==
    CHOOSE k \in 1..Len(chatListeners) :
        /\ Says(ctx[m].payload.answers[k]) = "throw"
        /\ \A j \in 1..(k - 1) : Says(ctx[m].payload.answers[j]) # "throw"

MatcherErrorBoundary ==
    \A m \in Msgs :
        (/\ Matched(m)
         /\ ctx[m].payload.addressed
         /\ ctx[m].payload.type = "MESSAGE"
         /\ \E k \in 1..Len(chatListeners) : Says(ctx[m].payload.answers[k]) = "throw") =>
            /\ pc[m] = "matched"
            /\ matchRet[m] = "undefined"
            /\ Whos(Only(m, {"consult"})) = [k \in 1..Raiser(m) |-> k]
            /\ hist[m][Len(hist[m])] = Ev("error", 0, 0, NoCtx, <<"exception">>)
            /\ ctx[m].c.xdRef # NoRef =>
                  /\ "listeners" \notin Result(m).keys
                  /\ "contexts" \notin Result(m).keys
                  /\ Result(m).listeners = <<>>

MatcherErrorWitness ==
    \E m \in Msgs :
        /\ Matched(m)
        /\ ctx[m].payload.addressed /\ ctx[m].payload.type = "MESSAGE"
        /\ Len(chatListeners) = 3
        /\ Says(ctx[m].payload.answers[1]) = "true"
        /\ Says(ctx[m].payload.answers[2]) = "throw"
        /\ Says(ctx[m].payload.answers[3]) = "true"
        /\ ctx[m].c.xdRef # NoRef
        /\ matchRet[m] = "undefined"

\* C19: plugin skip.  A plugin whose install location does not exist, or whose
\* installed package name differs from the manifest's, has no listener in
\* either registry and is not recorded as loaded, and the loader goes on with
\* the next plugin of the sorted list, if there is one: when no plugin makes
\* require or a constructor raise, every other plugin is recorded, in sorted
\* order.
Skipped(r) == manifest.list[r].env \in {"missing", "mismatch"}

PluginSkip ==
    (Loaded /\ manifest.file = "ok") =>
        /\ \A r \in 1..Len(manifest.list) :
              Skipped(r) =>
                  /\ \A i \in 1..Len(chatListeners) : chatListeners[i].chatPlugin # r
                  /\ \A i \in 1..Len(eventListeners) : eventListeners[i].chatPlugin # r
                  /\ \A i \in 1..Len(plugins) : plugins[i] # r
                  /\ \A i \in 1..Len(loadLog) :
                        (/\ loadLog[i] = <<manifest.list[r].env, r>>
                         /\ \E q \in 1..Len(manifest.list) : InOrder(r, q)) =>
                            Len(loadLog) > i
        /\ (\A r \in 1..Len(manifest.list) : manifest.list[r].env \in {"ok", "missing", "mismatch"}) =>
              /\ \A r \in 1..Len(manifest.list) :
                    IF Skipped(r)
                    THEN \E i \in 1..Len(loadLog) : loadLog[i] = <<manifest.list[r].env, r>>
                    ELSE \E i \in 1..Len(plugins) : plugins[i] = r
              /\ \A i, j \in 1..Len(plugins) : i < j => InOrder(plugins[i], plugins[j])

PluginSkipWitness ==
    /\ Loaded
    /\ Len(manifest.list) = 3
    /\ [r \in 1..3 |-> manifest.list[r].env] = <<"ok", "mismatch", "missing">>
    /\ [r \in 1..3 |-> manifest.list[r].priority] = <<3, 2, 1>>
    /\ plugins = <<1>>

\* C20: listener classification.  Of the names a loaded plugin declares, one
\* whose last part is MessageListener is registered with kind MESSAGE in the
\* message registry and not in the event registry, one whose last part is
\* EventListener is registered with kind EVENT in the event registry and not
\* in the message registry, and any other name is registered nowhere and does
\* not keep the names declared after it from being registered.
LastPart(name) == name[Len(name)]

ListenerClassification ==
    Loaded =>
        /\ \A i \in 1..Len(chatListeners) :
              chatListeners[i].chatPlugin # CoreRef =>
                  /\ LastPart(chatListeners[i].listenerName) = "MessageListener"
                  /\ chatListeners[i].listenerType = "MESSAGE"
        /\ \A i \in 1..Len(eventListeners) :
              /\ LastPart(eventListeners[i].listenerName) = "EventListener"
              /\ eventListeners[i].listenerType = "EVENT"
        /\ \A i \in 1..Len(plugins) :
              LET r == plugins[i] IN
              \A k \in 1..Len(manifest.list[r].listeners) :
                  LET name == manifest.list[r].listeners[k]
                  IN  /\ Registered(chatListeners, r, name)
                          <=> LastPart(name) = "MessageListener"
                      /\ Registered(eventListeners, r, name)
                          <=> LastPart(name) = "EventListener"
                      /\ (\E j \in 1..Len(loadLog) : loadLog[j] = <<"unsupported", r, k>>)
                          <=> LastPart(name) \notin {"MessageListener", "EventListener"}

ListenerClassificationWitness ==
    /\ Loaded
    /\ Len(manifest.list) = 2
    /\ manifest.list[1].listeners = <<QuxH, BarML>>
    /\ manifest.list[2].listeners = <<FooML, BazEL>>
    /\ plugins = <<1, 2>>
    /\ Registered(chatListeners, 1, BarML)
    /\ ~Registered(chatListeners, 1, QuxH)
    /\ Registered(eventListeners, 2, BazEL)

\* C21: append-only registry.  Every registerChatListener call appends one
\* entry, whatever is registered already: the list before the call is a prefix
\* of the list after it, one shorter; and after any calls getChatListener
\* returns the entries passed, as many and in the order of the calls.
RegistryAppendOnly ==
    [][ /\ Len(chatListeners') = Len(chatListeners) + 1
        /\ SubSeq(chatListeners', 1, Len(chatListeners)) = chatListeners
        /\ Len(getChatListener(chatListeners')) = Len(loadLog')
        /\ \A i \in 1..Len(loadLog') :
              LET e == getChatListener(chatListeners')[i]
              IN  loadLog'[i] = <<"register", e.listenerName, e.listenerType, e.chatPlugin>>
      ]_vars

RegistryAppendOnlyWitness ==
    /\ Len(loadLog) = 3
    /\ Len(chatListeners) = 3
    /\ chatListeners[1] = chatListeners[3]
    /\ chatListeners[1].listenerName = chatListeners[2].listenerName
    /\ chatListeners[1].chatPlugin # chatListeners[2].chatPlugin

\* C22: cross-message isolation.  When the dispatches of two messages
\* interleave at the awaits, each message's calls are those of the message
\* dispatched alone: its match result is what its own listeners answered, every
\* context consulted, processed or sent to is a clone made for that message,
\* and its listener calls and sends follow its own match order, one listener
\* at a time.
OwnMatches(m) ==
    SelectSeq([k \in 1..Len(chatListeners) |-> k],
              LAMBDA k : Says(ctx[m].payload.answers[k]) = "true")

CrossMessageIsolation ==
    \A m \in Msgs :
        LET h == hist[m] IN
        /\ \A p \in 1..Len(h) :
              /\ h[p].e \in {"consult", "process", "send"} =>
                    /\ h[p].target.id[1] = m
                    /\ h[p].target.id[2] > 0
              /\ (h[p].e \in {"process", "send"} /\ h[p].body # LoginPrompt) =>
                    /\ h[p].who = Result(m).listeners[h[p].i + 1]
                    /\ h[p].target = Result(m).contexts[h[p].i + 1]
                    /\ h[p].target.id = <<m, h[p].who>>
              /\ (h[p].e = "send" /\ h[p].body # LoginPrompt) =>
                    /\ h[p-1].e = "processed" /\ h[p-1].i = h[p].i
              /\ (h[p].e = "process" /\ h[p].i > 0) =>
                    /\ h[p-1].e = "sent" /\ h[p-1].i = h[p].i - 1
        /\ Has(m, "isAuthenticated") =>
              /\ Result(m).listeners = OwnMatches(m)
              /\ idx[m] < Len(OwnMatches(m)) \/ pc[m] = "done"
        /\ Authenticated(m) =>
              /\ Whos(Only(m, {"process"}))
                    = SubSeq(OwnMatches(m), 1, Len(Only(m, {"process"})))
              /\ Whos(Only(m, {"send"}))
                    = SubSeq(OwnMatches(m), 1, Len(Only(m, {"send"})))
              /\ (pc[m] = "done" /\ ~Has(m, "processFailed") /\ ~Has(m, "sendFailed")) =>
                    Whos(Only(m, {"sent"})) = OwnMatches(m)

CrossMessageWitness ==
    /\ pc["m1"] = "send" /\ idx["m1"] = 1
    /\ pc["m2"] = "process" /\ idx["m2"] = 0
    /\ Result("m1").listeners = <<1, 2>>
    /\ Result("m2").listeners = <<2>>
    /\ Len(Only("m1", {"sent"})) = 1

\* C23: match result alignment.  Whenever matchMessage populates the inbound
\* context, extraData.listeners and extraData.contexts have the same length,
\* contexts[i] is the clone listeners[i] was consulted with, and that clone's
\* extraData.chatPlugin is the plugin of listeners[i]; of the inbound context
\* matchMessage sets these two fields only, and for an unaddressed message it
\* sets nothing.
InboundExtra == [EmptyExtra EXCEPT !.note = "inbound", !.keys = {"note"}]

MatchResultAligned ==
    \A m \in Msgs :
        Matched(m) =>
            /\ ctx[m].c.id = OrigId(m)
            /\ ctx[m].c.xdRef \in {NoRef, OrigId(m)}
            /\ ~ctx[m].payload.addressed =>
                  (ctx[m].c.xdRef # NoRef => Result(m) = InboundExtra)
            /\ ctx[m].c.xdRef # NoRef =>
                  /\ Result(m).chatPlugin = NoPlugin
                  /\ Result(m).note = IF "note" \in Result(m).keys THEN "inbound" ELSE NULL
                  /\ \/ Result(m).keys \in {{"note"}, {"note", "listeners", "contexts"}}
                     \/ Result(m).keys = {"listeners", "contexts"}
                  /\ Len(Result(m).listeners) = Len(Result(m).contexts)
                  /\ \A i \in 1..Len(Result(m).listeners) :
                        LET k  == Result(m).listeners[i]
                            cl == Result(m).contexts[i]
                        IN  /\ cl.id = <<m, k>>
                            /\ cl.xdRef = <<m, k>>
                            /\ \E p \in 1..Len(hist[m]) :
                                  /\ hist[m][p].e = "consult"
                                  /\ hist[m][p].who = k
                                  /\ hist[m][p].target = cl
                            /\ "chatPlugin" \in xd[cl.xdRef].keys
                            /\ xd[cl.xdRef].chatPlugin = chatListeners[k].chatPlugin

MatchResultAlignedWitness ==
    \E m \in Msgs :
        /\ Matched(m)
        /\ ctx[m].c.xdRef # NoRef
        /\ Result(m).keys = {"note", "listeners", "contexts"}
        /\ Result(m).listeners = <<1, 3>>
        /\ xd[Result(m).contexts[1].xdRef].chatPlugin = CoreRef
        /\ xd[Result(m).contexts[2].xdRef].chatPlugin = 1

\* C24: built-in listener first.  The core LogoutListener is registered before
\* any plugin listener, so once registered it is the first entry of the message
\* registry and the only core entry; it is the first listener consulted for
\* every addressed plain message, and when it matches it is the first of the
\* match result and, for an authenticated sender and a pluginLimit other than
\* 0, the first listener called, whatever the priorities of the plugins.
CoreListenerFirst ==
    /\ phase # "new" =>
          /\ Len(chatListeners) >= 1
          /\ chatListeners[1] = CoreEntry
          /\ \A i \in 2..Len(chatListeners) : chatListeners[i].chatPlugin # CoreRef
    /\ \A m \in Msgs :
          /\ Has(m, "consult") => Only(m, {"consult"})[1].who = 1
          /\ (Matched(m) /\ ctx[m].payload.addressed /\ ctx[m].payload.type = "MESSAGE") =>
                Has(m, "consult")
          /\ (Matched(m) /\ Eligible(m) /\ Says(ctx[m].payload.answers[1]) = "true") =>
                /\ Result(m).listeners[1] = 1
                /\ (Authenticated(m) /\ pluginLimit # 0) =>
                      /\ Has(m, "process")
                      /\ Only(m, {"process"})[1].who = 1
                      /\ Only(m, {"process"})[1].i = 0

CoreListenerFirstWitness ==
    \E m \in Msgs :
        /\ pc[m] = "done" /\ Authenticated(m)
        /\ pluginLimit = 1
        /\ Len(manifest.list) = 1
        /\ manifest.list[1].priority = 1
        /\ Result(m).listeners = <<1, 2, 3>>
        /\ Whos(Only(m, {"sent"})) = <<1>>

\* C25: atomic plugin load.  After loadPlugins has finished, every plugin
\* listener in the message or event registry belongs to a plugin recorded in
\* the list of loaded plugins: no plugin is left with some of its listeners
\* registered and not recorded.
AtomicPluginLoad ==
    Loaded =>
        /\ \A i \in 1..Len(chatListeners) :
              chatListeners[i].chatPlugin # CoreRef =>
                  \E j \in 1..Len(plugins) : plugins[j] = chatListeners[i].chatPlugin
        /\ \A i \in 1..Len(eventListeners) :
              \E j \in 1..Len(plugins) : plugins[j] = eventListeners[i].chatPlugin

SlackEvents(kinds) == SelectSeq(slackLog, LAMBDA ev : ev.e \in kinds)

\* C26: single transport middleware.  Across any listen calls, calls that
\* begin while another awaits middleware.run included, at most one
\* SlackMiddleware is created, set on the bot and run.
SingleMiddleware ==
    /\ Len(mwState) <= 1
    /\ Len(SlackEvents({"new"})) <= 1
    /\ Len(SlackEvents({"setMiddleware"})) <= 1
    /\ Len(SlackEvents({"run"})) <= 1
    /\ middleware \in {NoMiddleware, 1}
    /\ \A call \in Calls : listenPc[call] # "idle" => listenMw[call] = 1

SingleMiddlewareWitness ==
    /\ listenPc[1] = "run"
    /\ listenPc[2] = "done"
    /\ listenPc[3] = "done"
    /\ Len(mwState) = 1
    /\ mwState[1] = "running"

\* C27: matcher on a running middleware only.  Whenever a listen call adds its
\* (matcher, handler) pair, the run of the bot's middleware has completed with
\* success; a call whose run fails adds no pair and returns normally, and no
\* other call adds a pair while the run has not succeeded.
MatcherOnRunningOnly ==
    /\ \A p \in 1..Len(slackLog) :
          slackLog[p].e = "addMatcher" => slackLog[p].st = "ran"
    /\ \A call \in Calls :
          listenPc[call] = "caught" =>
              \A i \in 1..Len(matchers) : matchers[i] # call
    /\ Len(matchers) > 0 => (middleware # NoMiddleware /\ mwState[middleware] = "ran")

====
